---- MODULE Spec2Model ----
(***************************************************************************)
(* Connection admission handshake of the tunnelto server:                  *)
(*   tunnelto_server/src/auth/client_auth.rs                               *)
(*   tunnelto_server/src/auth/auth_db.rs                                   *)
(*                                                                         *)
(* One handshake attempt runs per accepted websocket.  The attempt is cut  *)
(* into steps at its .await points; every step is one action.              *)
(***************************************************************************)
EXTENDS Integers, Sequences, FiniteSets, TLC

\* ------------------------------------------------------------------------
\* Bounds and input domains
\* ------------------------------------------------------------------------

\* longest requested sub-domain (in chars) a client sends
MaxLen == 2

\* the accepted websockets
Conns == {"c1", "c2"}

\* chars a requested sub-domain is made of: an ASCII lowercase letter, an
\* ASCII uppercase letter, a digit, the hyphen, a space, and a lowercase
\* letter outside ASCII (U+00E9, e with acute accent)
Alphabet == {"a", "A", "1", "-", " ", "U+00E9"}

\* Rust Strings over Alphabet, as sequences of chars
Strings == UNION {[1..n -> Alphabet] : n \in 0..MaxLen}

\* secret keys a client presents (ClientType::Auth { key })
Keys == {"k1", "k2"}

\* ids produced by ClientId::generate()
GeneratedIds == {<<"gen", "g1">>, <<"gen", "g2">>}

\* domains produced by ServerHello::random_domain()
RandomDomains == {<<"a", "1">>, <<"1", "a">>}

\* signing keys: the configured CONFIG.master_sig_key and a foreign one
MasterSigKey == "K"
SigKeys == {"K", "K2"}

\* Option<T>
None == [some |-> FALSE]
Some(v) == [some |-> TRUE, val |-> v]

\* Result<T, E>
Ok(v) == [ok |-> TRUE, val |-> v]
Err(e) == [ok |-> FALSE, err |-> e]

\* ------------------------------------------------------------------------
\* tunnelto_lib collaborators (ClientId, SecretKey, ReconnectToken)
\* ------------------------------------------------------------------------

\* SecretKey::client_id(): the identifier derived from the credential
client_id_of(key) == <<"id", key>>

ClientIds == {client_id_of(k) : k \in Keys} \cup GeneratedIds

\* ReconnectTokenPayload { client_id, sub_domain }
TokenSubDomains == {<<"a">>, <<" ", "a">>}
Payloads == [client_id : {client_id_of("k1"), <<"gen", "g1">>}, sub_domain : TokenSubDomains]

\* signature of a payload under a key
sign(payload, key) == <<payload, key>>

\* ReconnectToken: an undecodable string, or a payload with a signature
MalformedToken == [malformed |-> TRUE]
ReconnectTokens ==
    {MalformedToken} \cup
    {[malformed |-> FALSE, payload |-> p, sig |-> sign(p, k)] : p \in Payloads, k \in SigKeys}

\* ReconnectTokenPayload::verify(token, key)
verify(token, key) ==
    IF token.malformed THEN Err("decode")
    ELSE IF token.sig = sign(token.payload, key) THEN Ok(token.payload)
    ELSE Err("signature")

\* ------------------------------------------------------------------------
\* Wire messages
\* ------------------------------------------------------------------------

Anonymous == [auth |-> FALSE]
Auth(key) == [auth |-> TRUE, key |-> key]
ClientTypes == {Anonymous} \cup {Auth(k) : k \in Keys}

OptionOf(S) == {None} \cup {Some(v) : v \in S}

\* ClientHello { client_type, sub_domain, reconnect_token }
ClientHellos ==
    [client_type : ClientTypes,
     sub_domain : OptionOf(Strings),
     reconnect_token : OptionOf(ReconnectTokens)]

\* payload of the first websocket message: the JSON of a ClientHello, or
\* bytes that are not the JSON of any ClientHello
Garbage == [json |-> FALSE]
Encoded(hello) == [json |-> TRUE, hello |-> hello]
Messages == {Garbage} \cup {Encoded(h) : h \in ClientHellos}

\* serde_json::from_slice::<ClientHello>
from_slice(data) == IF data.json THEN Ok(data.hello) ELSE Err("serde")

\* what websocket.next().await yields: end of stream, a transport error,
\* or a message
StreamItems(msgs) == {None, Some(Err("transport"))} \cup {Some(Ok(m)) : m \in msgs}

\* ------------------------------------------------------------------------
\* Sub-domain sanitation (client_auth.rs)
\* ------------------------------------------------------------------------

\* char::to_lowercase on the chars of Alphabet
char_to_lowercase(ch) == IF ch = "A" THEN "a" ELSE ch

\* String::to_lowercase
to_lowercase(s) == [i \in 1..Len(s) |-> char_to_lowercase(s[i])]

\* char::is_alphanumeric: the Unicode Alphabetic and Numeric chars
is_alphanumeric(ch) == ch \in {"a", "A", "1", "U+00E9"}

\* sub_domain.chars().filter(|c| !(c.is_alphanumeric() || c == &'-')).count() > 0
has_invalid_char(s) ==
    Cardinality({i \in 1..Len(s) : ~(is_alphanumeric(s[i]) \/ s[i] = "-")}) > 0

\* ------------------------------------------------------------------------
\* Account directory (auth_db.rs)
\* ------------------------------------------------------------------------

\* strings stored under the account_id attribute, and Uuid::from_str on them
AccountStrs == {"uuid-1", "UUID-1", "uuid-2", "garbage"}
uuid_from_str(s) ==
    CASE s \in {"uuid-1", "UUID-1"} -> Ok(<<"uuid", "1">>)
      [] s = "uuid-2" -> Ok(<<"uuid", "2">>)
      [] OTHER -> Err("InvalidAccountId")

\* AttributeValue { s: Option<String>, .. }
AttributeValues == [s : OptionOf(AccountStrs)]
DefaultAttributeValue == [s |-> None]

\* items of the table: attribute name -> AttributeValue
EmptyItem == [n \in {} |-> DefaultAttributeValue]
Items == {EmptyItem} \cup {[n \in {"account_id"} |-> v] : v \in AttributeValues}

\* what client.get_item(input).await yields
GetItemResults == {Err("rusoto")} \cup {Ok([item |-> i]) : i \in OptionOf(Items)}

\* get_account_id_for_auth_key taking a missing account_id string as the
\* empty string
get_account_id_or_default(get_item) ==
    IF ~get_item.ok THEN Err("AuthDbGetItem")
    ELSE LET item == IF get_item.val.item.some THEN get_item.val.item.val ELSE EmptyItem
             attr == IF "account_id" \in DOMAIN item THEN item["account_id"]
                     ELSE DefaultAttributeValue
         IN  IF ~attr.s.some THEN uuid_from_str("")
             ELSE uuid_from_str(attr.s.val)

\* AuthDbService::get_account_id_for_auth_key, given the backend's answer
get_account_id_for_auth_key(get_item) ==
    IF ~get_item.ok THEN Err("AuthDbGetItem")
    ELSE LET item == IF get_item.val.item.some THEN get_item.val.item.val ELSE EmptyItem
             attr == IF "account_id" \in DOMAIN item THEN item["account_id"]
                     ELSE DefaultAttributeValue
         IN  IF ~attr.s.some THEN Err("AccountNotFound")
             ELSE uuid_from_str(attr.s.val)

\* ------------------------------------------------------------------------
\* Instance registry (crate::network::instance_for_host)
\* ------------------------------------------------------------------------

\* names the registry may hold a live binding for
RegNames == {<<"a">>}

\* names the operator may have put in CONFIG.blocked_sub_domains
BlockedCandidates == {<<"a">>, <<" ", "a">>}

\* answers of instance_for_host(sub_domain) in registry state reg
InstanceAnswers(reg, name) ==
    {Err("Other")} \cup
    (IF name \in DOMAIN reg /\ reg[name].some
     THEN {Ok([instance |-> "i1", client |-> reg[name].val])}
     ELSE {Err("DoesNotServeHost")})

\* ------------------------------------------------------------------------
\* State
\* ------------------------------------------------------------------------

VARIABLES
    pc,                  \* per connection: position of its handshake attempt
    inbound,             \* per connection: what websocket.next() yielded
    client_hello,        \* per connection: the decoded ClientHello
    get_item_reply,      \* per connection: what client.get_item(input) yielded
    account,             \* per connection: result of the directory lookup
    client_id,           \* per connection: key.client_id(), once computed
    sub_domain,          \* per connection: the lowercased requested name, once computed
    instance,            \* per connection: answer of instance_for_host
    sent,                \* per connection: ServerHello values given to websocket.send
    result,              \* per connection: Option<ClientHandshake> returned
    log,                 \* per connection: the calls made, in order
    registry,            \* live bindings: name -> Option<ClientId>
    blocked_sub_domains  \* CONFIG.blocked_sub_domains

vars == <<pc, inbound, client_hello, get_item_reply, account, client_id, sub_domain,
          instance, sent, result, log, registry, blocked_sub_domains>>

NotYet == [unset |-> TRUE]

\* ClientHandshake { id, sub_domain, is_anonymous }
ClientHandshake(id, sd, anon) == [id |-> id, sub_domain |-> sd, is_anonymous |-> anon]

InitEnv ==
    /\ registry \in [RegNames -> OptionOf(ClientIds)]
    /\ blocked_sub_domains \in SUBSET BlockedCandidates

InitConns(connected) ==
    /\ pc = [c \in Conns |-> IF c \in connected THEN "AwaitingHello" ELSE "NotConnected"]
    /\ inbound = [c \in Conns |-> NotYet]
    /\ client_hello = [c \in Conns |-> NotYet]
    /\ get_item_reply = [c \in Conns |-> NotYet]
    /\ account = [c \in Conns |-> NotYet]
    /\ client_id = [c \in Conns |-> None]
    /\ sub_domain = [c \in Conns |-> None]
    /\ instance = [c \in Conns |-> NotYet]
    /\ sent = [c \in Conns |-> <<>>]
    /\ result = [c \in Conns |-> NotYet]
    /\ log = [c \in Conns |-> <<>>]

\* one websocket has been accepted
Init == InitEnv /\ InitConns({"c1"})

\* ------------------------------------------------------------------------
\* Steps of one handshake attempt
\* ------------------------------------------------------------------------

\* the attempt of c moves on to step next, having made the calls in events
Goto(c, next, events) ==
    /\ pc' = [pc EXCEPT ![c] = next]
    /\ log' = [log EXCEPT ![c] = @ \o events]
    /\ UNCHANGED <<sent, result>>

\* the attempt of c returns outcome (None or Some(ClientHandshake)), having
\* made the calls in events and given the ServerHello values in sends to
\* websocket.send (whose own result the code discards)
Return(c, outcome, sends, events) ==
    /\ pc' = [pc EXCEPT ![c] = IF outcome.some THEN "Admitted" ELSE "Rejected"]
    /\ result' = [result EXCEPT ![c] = outcome]
    /\ sent' = [sent EXCEPT ![c] = @ \o sends]
    /\ log' = [log EXCEPT ![c] = @ \o events]

\* auth_client_handshake answering a failed read with AuthFailed
auth_client_handshake_answering(c, msgs) ==
    /\ pc[c] = "AwaitingHello"
    /\ \E item \in StreamItems(msgs) :
        /\ inbound' = [inbound EXCEPT ![c] = item]
        /\ IF item.some /\ item.val.ok
           THEN Goto(c, "Decoding", <<"next">>)
           ELSE Return(c, None, <<"AuthFailed">>, <<"next", "send">>)
    /\ UNCHANGED <<client_hello, account, client_id, sub_domain, instance,
                   registry, blocked_sub_domains, get_item_reply>>

\* auth_client_handshake: websocket.next().await resolves
auth_client_handshake(c, msgs) ==
    /\ pc[c] = "AwaitingHello"
    /\ \E item \in StreamItems(msgs) :
        /\ inbound' = [inbound EXCEPT ![c] = item]
        /\ IF item.some /\ item.val.ok
           THEN Goto(c, "Decoding", <<"next">>)
           ELSE Return(c, None, <<>>, <<"next">>)
    /\ UNCHANGED <<client_hello, account, client_id, sub_domain, instance,
                   registry, blocked_sub_domains, get_item_reply>>

\* auth_client with the AuthFailed answer to an undecodable hello left out
auth_client_silent_decode_error(c) ==
    /\ pc[c] = "Decoding"
    /\ LET parsed == from_slice(inbound[c].val.val) IN
        IF ~parsed.ok
        THEN /\ Return(c, None, <<>>, <<"from_slice">>)
             /\ UNCHANGED client_hello
        ELSE /\ client_hello' = [client_hello EXCEPT ![c] = parsed.val]
             /\ IF ~parsed.val.client_type.auth
                THEN Return(c, None, <<>>, <<"from_slice">>)
                ELSE Goto(c, "Authenticating", <<"from_slice">>)
    /\ UNCHANGED <<inbound, account, client_id, sub_domain, instance,
                   registry, blocked_sub_domains, get_item_reply>>

\* auth_client answering an undecodable hello with InvalidSubDomain
auth_client_wrong_answer(c) ==
    /\ pc[c] = "Decoding"
    /\ LET parsed == from_slice(inbound[c].val.val) IN
        IF ~parsed.ok
        THEN /\ Return(c, None, <<"InvalidSubDomain">>, <<"from_slice", "send">>)
             /\ UNCHANGED client_hello
        ELSE /\ client_hello' = [client_hello EXCEPT ![c] = parsed.val]
             /\ IF ~parsed.val.client_type.auth
                THEN Return(c, None, <<>>, <<"from_slice">>)
                ELSE Goto(c, "Authenticating", <<"from_slice">>)
    /\ UNCHANGED <<inbound, account, client_id, sub_domain, instance,
                   registry, blocked_sub_domains, get_item_reply>>

\* auth_client admitting a hello of client type Anonymous as a fresh
\* anonymous session
auth_client_anonymous_allowed(c) ==
    /\ pc[c] = "Decoding"
    /\ LET parsed == from_slice(inbound[c].val.val) IN
        IF ~parsed.ok
        THEN /\ Return(c, None, <<"AuthFailed">>, <<"from_slice", "send">>)
             /\ UNCHANGED client_hello
        ELSE /\ client_hello' = [client_hello EXCEPT ![c] = parsed.val]
             /\ IF ~parsed.val.client_type.auth
                THEN \E sd \in RandomDomains, id \in GeneratedIds :
                         Return(c, Some(ClientHandshake(id, sd, TRUE)), <<>>, <<"from_slice">>)
                ELSE Goto(c, "Authenticating", <<"from_slice">>)
    /\ UNCHANGED <<inbound, account, client_id, sub_domain, instance,
                   registry, blocked_sub_domains, get_item_reply>>

\* auth_client, up to the call of the account directory
auth_client(c) ==
    /\ pc[c] = "Decoding"
    /\ LET parsed == from_slice(inbound[c].val.val) IN
        IF ~parsed.ok
        THEN /\ Return(c, None, <<"AuthFailed">>, <<"from_slice", "send">>)
             /\ UNCHANGED client_hello
        ELSE /\ client_hello' = [client_hello EXCEPT ![c] = parsed.val]
             /\ IF ~parsed.val.client_type.auth
                THEN Return(c, None, <<>>, <<"from_slice">>)
                ELSE Goto(c, "Authenticating", <<"from_slice">>)
    /\ UNCHANGED <<inbound, account, client_id, sub_domain, instance,
                   registry, blocked_sub_domains, get_item_reply>>

\* check_auth with the Err arm of the lookup's match left out
check_auth_ignoring_error(c) ==
    /\ pc[c] = "Authenticating"
    /\ \E get_item \in GetItemResults :
        LET looked_up == get_account_id_for_auth_key(get_item)
            hello == client_hello[c]
        IN  /\ get_item_reply' = [get_item_reply EXCEPT ![c] = get_item]
            /\ account' = [account EXCEPT ![c] = looked_up]
            /\ IF hello.sub_domain.some
               THEN /\ client_id' = [client_id EXCEPT ![c] = Some(client_id_of(hello.client_type.key))]
                    /\ Goto(c, "Negotiating", <<"get_item">>)
               ELSE IF hello.reconnect_token.some
               THEN /\ Goto(c, "Reconnecting", <<"get_item">>)
                    /\ UNCHANGED client_id
               ELSE /\ \E sd \in RandomDomains, id \in GeneratedIds :
                          Return(c, Some(ClientHandshake(id, sd, TRUE)), <<>>, <<"get_item">>)
                    /\ UNCHANGED client_id
    /\ UNCHANGED <<inbound, client_hello, sub_domain, instance,
                   registry, blocked_sub_domains>>

\* check_auth giving the bare hello the id derived from the credential
check_auth_derived_id(c) ==
    /\ pc[c] = "Authenticating"
    /\ \E get_item \in GetItemResults :
        LET looked_up == get_account_id_for_auth_key(get_item)
            hello == client_hello[c]
        IN  /\ get_item_reply' = [get_item_reply EXCEPT ![c] = get_item]
            /\ account' = [account EXCEPT ![c] = looked_up]
            /\ IF ~looked_up.ok
               THEN /\ Return(c, None, <<>>, <<"get_item">>)
                    /\ UNCHANGED client_id
               ELSE IF hello.sub_domain.some
               THEN /\ client_id' = [client_id EXCEPT ![c] = Some(client_id_of(hello.client_type.key))]
                    /\ Goto(c, "Negotiating", <<"get_item">>)
               ELSE IF hello.reconnect_token.some
               THEN /\ Goto(c, "Reconnecting", <<"get_item">>)
                    /\ UNCHANGED client_id
               ELSE /\ \E sd \in RandomDomains :
                          Return(c, Some(ClientHandshake(client_id_of(hello.client_type.key),
                                                         sd, TRUE)),
                                 <<>>, <<"get_item">>)
                    /\ UNCHANGED client_id
    /\ UNCHANGED <<inbound, client_hello, sub_domain, instance,
                   registry, blocked_sub_domains>>

\* check_auth looking at the reconnect token before the sub-domain
check_auth_token_first(c) ==
    /\ pc[c] = "Authenticating"
    /\ \E get_item \in GetItemResults :
        LET looked_up == get_account_id_for_auth_key(get_item)
            hello == client_hello[c]
        IN  /\ get_item_reply' = [get_item_reply EXCEPT ![c] = get_item]
            /\ account' = [account EXCEPT ![c] = looked_up]
            /\ IF ~looked_up.ok
               THEN /\ Return(c, None, <<>>, <<"get_item">>)
                    /\ UNCHANGED client_id
               ELSE IF hello.reconnect_token.some
               THEN /\ Goto(c, "Reconnecting", <<"get_item">>)
                    /\ UNCHANGED client_id
               ELSE IF hello.sub_domain.some
               THEN /\ client_id' = [client_id EXCEPT ![c] = Some(client_id_of(hello.client_type.key))]
                    /\ Goto(c, "Negotiating", <<"get_item">>)
               ELSE /\ \E sd \in RandomDomains, id \in GeneratedIds :
                          Return(c, Some(ClientHandshake(id, sd, TRUE)), <<>>, <<"get_item">>)
                    /\ UNCHANGED client_id
    /\ UNCHANGED <<inbound, client_hello, sub_domain, instance,
                   registry, blocked_sub_domains>>

\* check_auth making the client id from the account id the directory returned
check_auth_account_as_client_id(c) ==
    /\ pc[c] = "Authenticating"
    /\ \E get_item \in GetItemResults :
        LET looked_up == get_account_id_for_auth_key(get_item)
            hello == client_hello[c]
        IN  /\ get_item_reply' = [get_item_reply EXCEPT ![c] = get_item]
            /\ account' = [account EXCEPT ![c] = looked_up]
            /\ IF ~looked_up.ok
               THEN /\ Return(c, None, <<>>, <<"get_item">>)
                    /\ UNCHANGED client_id
               ELSE IF hello.sub_domain.some
               THEN /\ client_id' = [client_id EXCEPT ![c] = Some(<<"id", looked_up.val[2]>>)]
                    /\ Goto(c, "Negotiating", <<"get_item">>)
               ELSE IF hello.reconnect_token.some
               THEN /\ Goto(c, "Reconnecting", <<"get_item">>)
                    /\ UNCHANGED client_id
               ELSE /\ \E sd \in RandomDomains, id \in GeneratedIds :
                          Return(c, Some(ClientHandshake(id, sd, TRUE)), <<>>, <<"get_item">>)
                    /\ UNCHANGED client_id
    /\ UNCHANGED <<inbound, client_hello, sub_domain, instance,
                   registry, blocked_sub_domains>>

\* auth_client: AUTH_DB_SERVICE.get_account_id_for_auth_key(..).await
\* resolves, and the hello is dispatched on sub_domain / reconnect_token
check_auth(c) ==
    /\ pc[c] = "Authenticating"
    /\ \E get_item \in GetItemResults :
        LET looked_up == get_account_id_for_auth_key(get_item)
            hello == client_hello[c]
        IN  /\ get_item_reply' = [get_item_reply EXCEPT ![c] = get_item]
            /\ account' = [account EXCEPT ![c] = looked_up]
            /\ IF ~looked_up.ok
               THEN /\ Return(c, None, <<>>, <<"get_item">>)
                    /\ UNCHANGED client_id
               ELSE IF hello.sub_domain.some
               THEN /\ client_id' = [client_id EXCEPT ![c] = Some(client_id_of(hello.client_type.key))]
                    /\ Goto(c, "Negotiating", <<"get_item">>)
               ELSE IF hello.reconnect_token.some
               THEN /\ Goto(c, "Reconnecting", <<"get_item">>)
                    /\ UNCHANGED client_id
               ELSE /\ \E sd \in RandomDomains, id \in GeneratedIds :
                          Return(c, Some(ClientHandshake(id, sd, TRUE)), <<>>, <<"get_item">>)
                    /\ UNCHANGED client_id
    /\ UNCHANGED <<inbound, client_hello, sub_domain, instance,
                   registry, blocked_sub_domains>>

\* pre_validate with the blocked-set check left out
pre_validate_unblocked(sd, blocked) ==
    IF has_invalid_char(sd) THEN "InvalidSubDomain" ELSE "pass"

\* pre_validate with the char check left out
pre_validate_blocked_only(sd, blocked) ==
    IF sd \in blocked THEN "SubDomainInUse" ELSE "pass"

\* the two local checks of sanitize_sub_domain_and_pre_validate on the
\* lowercased name: the ServerHello to reject with, or "pass"
pre_validate(sd, blocked) ==
    IF has_invalid_char(sd) THEN "InvalidSubDomain"
    ELSE IF sd \in blocked THEN "SubDomainInUse"
    ELSE "pass"

\* the calls pre_validate makes before it answers
pre_validate_calls(sd) ==
    IF has_invalid_char(sd) THEN <<"to_lowercase", "char_check">>
    ELSE <<"to_lowercase", "char_check", "blocked_check">>

\* sanitize_sub_domain_and_pre_validate with the return after the answer to
\* a blocked name left out
sanitize_no_return(c) ==
    /\ pc[c] = "Negotiating"
    /\ LET sd == to_lowercase(client_hello[c].sub_domain.val)
           checked == pre_validate(sd, blocked_sub_domains)
       IN  /\ sub_domain' = [sub_domain EXCEPT ![c] = Some(sd)]
           /\ IF checked = "InvalidSubDomain"
              THEN Return(c, None, <<checked>>, pre_validate_calls(sd) \o <<"send">>)
              ELSE IF checked = "SubDomainInUse"
              THEN /\ pc' = [pc EXCEPT ![c] = "QueryingRegistry"]
                   /\ sent' = [sent EXCEPT ![c] = Append(@, checked)]
                   /\ log' = [log EXCEPT ![c] = @ \o pre_validate_calls(sd) \o <<"send">>]
                   /\ UNCHANGED result
              ELSE Goto(c, "QueryingRegistry", pre_validate_calls(sd))
    /\ UNCHANGED <<inbound, client_hello, account, client_id, instance,
                   registry, blocked_sub_domains, get_item_reply>>

\* sanitize_sub_domain_and_pre_validate with the to_lowercase left out
sanitize_keep_case(c) ==
    /\ pc[c] = "Negotiating"
    /\ LET sd == client_hello[c].sub_domain.val
           checked == pre_validate(sd, blocked_sub_domains)
       IN  /\ sub_domain' = [sub_domain EXCEPT ![c] = Some(sd)]
           /\ IF checked # "pass"
              THEN Return(c, None, <<checked>>, pre_validate_calls(sd) \o <<"send">>)
              ELSE Goto(c, "QueryingRegistry", pre_validate_calls(sd))
    /\ UNCHANGED <<inbound, client_hello, account, client_id, instance,
                   registry, blocked_sub_domains, get_item_reply>>

\* sanitize_sub_domain_and_pre_validate, up to the call of the registry
sanitize_sub_domain_and_pre_validate(c) ==
    /\ pc[c] = "Negotiating"
    /\ LET sd == to_lowercase(client_hello[c].sub_domain.val)
           checked == pre_validate(sd, blocked_sub_domains)
       IN  /\ sub_domain' = [sub_domain EXCEPT ![c] = Some(sd)]
           /\ IF checked # "pass"
              THEN Return(c, None, <<checked>>, pre_validate_calls(sd) \o <<"send">>)
              ELSE Goto(c, "QueryingRegistry", pre_validate_calls(sd))
    /\ UNCHANGED <<inbound, client_hello, account, client_id, instance,
                   registry, blocked_sub_domains, get_item_reply>>

\* taken_by_other with the comparison of the client ids left out
taken_by_anyone(answer, id) == answer.ok

\* taken_by_other counting a failed registry query as a conflict
taken_or_unknown(answer, id) ==
    IF answer.ok THEN answer.val.client # id ELSE answer.err # "DoesNotServeHost"

\* the match on the registry's answer: is the name held by another client
taken_by_other(answer, id) == answer.ok /\ answer.val.client # id

\* instance_for_host with the return after the SubDomainInUse answer left out
instance_for_host_no_return(c) ==
    /\ pc[c] = "QueryingRegistry"
    /\ \E answer \in InstanceAnswers(registry, sub_domain[c].val) :
        /\ instance' = [instance EXCEPT ![c] = answer]
        /\ Return(c, Some(ClientHandshake(client_id[c].val, sub_domain[c].val, FALSE)),
                  IF taken_by_other(answer, client_id[c].val)
                  THEN <<"SubDomainInUse">> ELSE <<>>,
                  IF taken_by_other(answer, client_id[c].val)
                  THEN <<"instance_for_host", "send">> ELSE <<"instance_for_host">>)
    /\ UNCHANGED <<inbound, client_hello, account, client_id, sub_domain,
                   registry, blocked_sub_domains, get_item_reply>>

\* instance_for_host binding the admitted name to the client in the registry
instance_for_host_binding(c) ==
    /\ pc[c] = "QueryingRegistry"
    /\ \E answer \in InstanceAnswers(registry, sub_domain[c].val) :
        /\ instance' = [instance EXCEPT ![c] = answer]
        /\ IF taken_by_other(answer, client_id[c].val)
           THEN /\ Return(c, None, <<"SubDomainInUse">>, <<"instance_for_host", "send">>)
                /\ UNCHANGED registry
           ELSE /\ Return(c, Some(ClientHandshake(client_id[c].val, sub_domain[c].val, FALSE)),
                          <<>>, <<"instance_for_host">>)
                /\ registry' = [n \in DOMAIN registry |->
                                   IF n = sub_domain[c].val THEN client_id[c] ELSE registry[n]]
    /\ UNCHANGED <<inbound, client_hello, account, client_id, sub_domain,
                   blocked_sub_domains, get_item_reply>>

\* sanitize_sub_domain_and_pre_validate: instance_for_host(..).await
\* resolves; on success auth_client returns the ClientHandshake
instance_for_host(c) ==
    /\ pc[c] = "QueryingRegistry"
    /\ \E answer \in InstanceAnswers(registry, sub_domain[c].val) :
        /\ instance' = [instance EXCEPT ![c] = answer]
        /\ IF taken_by_other(answer, client_id[c].val)
           THEN Return(c, None, <<"SubDomainInUse">>, <<"instance_for_host", "send">>)
           ELSE Return(c, Some(ClientHandshake(client_id[c].val, sub_domain[c].val, FALSE)),
                       <<>>, <<"instance_for_host">>)
    /\ UNCHANGED <<inbound, client_hello, account, client_id, sub_domain,
                   registry, blocked_sub_domains, get_item_reply>>

\* handle_reconnect_token returning is_anonymous = false
handle_reconnect_token_not_anonymous(c) ==
    /\ pc[c] = "Reconnecting"
    /\ LET verified == verify(client_hello[c].reconnect_token.val, MasterSigKey) IN
        IF ~verified.ok
        THEN Return(c, None, <<"AuthFailed">>, <<"verify", "send">>)
        ELSE Return(c, Some(ClientHandshake(verified.val.client_id,
                                            verified.val.sub_domain, FALSE)),
                    <<>>, <<"verify">>)
    /\ UNCHANGED <<inbound, client_hello, account, client_id, sub_domain, instance,
                   registry, blocked_sub_domains, get_item_reply>>

\* handle_reconnect_token refusing a payload whose sub_domain is blocked
handle_reconnect_token_checked(c) ==
    /\ pc[c] = "Reconnecting"
    /\ LET verified == verify(client_hello[c].reconnect_token.val, MasterSigKey) IN
        IF ~verified.ok
        THEN Return(c, None, <<"AuthFailed">>, <<"verify", "send">>)
        ELSE IF verified.val.sub_domain \in blocked_sub_domains
        THEN Return(c, None, <<"SubDomainInUse">>, <<"verify", "send">>)
        ELSE Return(c, Some(ClientHandshake(verified.val.client_id,
                                            verified.val.sub_domain, TRUE)),
                    <<>>, <<"verify">>)
    /\ UNCHANGED <<inbound, client_hello, account, client_id, sub_domain, instance,
                   registry, blocked_sub_domains, get_item_reply>>

\* handle_reconnect_token
handle_reconnect_token(c) ==
    /\ pc[c] = "Reconnecting"
    /\ LET verified == verify(client_hello[c].reconnect_token.val, MasterSigKey) IN
        IF ~verified.ok
        THEN Return(c, None, <<"AuthFailed">>, <<"verify", "send">>)
        ELSE Return(c, Some(ClientHandshake(verified.val.client_id,
                                            verified.val.sub_domain, TRUE)),
                    <<>>, <<"verify">>)
    /\ UNCHANGED <<inbound, client_hello, account, client_id, sub_domain, instance,
                   registry, blocked_sub_domains, get_item_reply>>

Next ==
    \E c \in Conns :
        \/ auth_client_handshake(c, Messages)
        \/ auth_client(c)
        \/ check_auth(c)
        \/ sanitize_sub_domain_and_pre_validate(c)
        \/ instance_for_host(c)
        \/ handle_reconnect_token(c)

Spec == Init /\ [][Next]_vars

\* ------------------------------------------------------------------------
\* Two handshake attempts running concurrently
\* ------------------------------------------------------------------------

\* names the two racing clients ask for
RaceNames == {<<"a">>, <<"A">>}

\* tokens a racing client may carry: one signed with the master key, one
\* signed with a foreign key
RaceTokens ==
    LET p == [client_id |-> <<"gen", "g1">>, sub_domain |-> <<"a">>]
    IN  {[malformed |-> FALSE, payload |-> p, sig |-> sign(p, k)] : k \in SigKeys}

\* first messages of the racing clients: Auth hellos
RaceMessages ==
    {Encoded(h) : h \in [client_type : {Auth(k) : k \in Keys},
                         sub_domain : OptionOf(RaceNames),
                         reconnect_token : OptionOf(RaceTokens)]}

\* both websockets have been accepted
InitRace == InitEnv /\ InitConns(Conns)

NextRace ==
    \E c \in Conns :
        \/ auth_client_handshake(c, RaceMessages)
        \/ auth_client(c)
        \/ check_auth(c)
        \/ sanitize_sub_domain_and_pre_validate(c)
        \/ instance_for_host(c)
        \/ handle_reconnect_token(c)

SpecRace == InitRace /\ [][NextRace]_vars

\* ------------------------------------------------------------------------
\* Properties
\* ------------------------------------------------------------------------

Admitted(c) == pc[c] = "Admitted"
Rejected(c) == pc[c] = "Rejected"
Returned(c) == Admitted(c) \/ Rejected(c)

\* the attempt of c has made the call named call
Called(c, call) == \E i \in 1..Len(log[c]) : log[c][i] = call

\* the attempt of c has decoded a hello of client type Auth
AuthHello(c) == client_hello[c] # NotYet /\ client_hello[c].client_type.auth

\* the directory lookup of c has returned, with success / with an error
LookupOk(c) == account[c] # NotYet /\ account[c].ok
LookupFailed(c) == account[c] # NotYet /\ ~account[c].ok

\* the negotiation of c has lowercased the requested name
Lowercased(c) == sub_domain[c].some

\* C1: a handshake attempt gives at most one ServerHello to the connection,
\* whatever the hello, the directory, the registry and the verifier answer.
C1_AtMostOneServerHello == \A c \in Conns : Len(sent[c]) <= 1

\* an attempt was rejected by the registry check with one ServerHello sent
C1_Witness ==
    \E c \in Conns : Rejected(c) /\ Called(c, "instance_for_host") /\ Len(sent[c]) = 1

\* C2, as the specification words it: whenever an attempt ends Rejected, exactly one
\* ServerHello has been sent on the connection before it returns.
C2_RejectedSentExactlyOne == \A c \in Conns : Rejected(c) => Len(sent[c]) = 1

\* the rejections the code answers with silence: no readable first message,
\* client type Anonymous, failed directory lookup
SilentRejection(c) ==
    \/ ~(inbound[c].some /\ inbound[c].val.ok)
    \/ (client_hello[c] # NotYet /\ ~client_hello[c].client_type.auth)
    \/ LookupFailed(c)

\* C2, as the code has it: whenever an attempt ends Rejected, at most one ServerHello
\* has been sent before it returns: none when the first message was absent
\* or unreadable, the client type was Anonymous or the directory lookup
\* failed, and exactly one, sent as the last call of the attempt, otherwise.
C2_RejectedSentOneUnlessSilent ==
    \A c \in Conns :
        Rejected(c) =>
            IF SilentRejection(c)
            THEN sent[c] = <<>> /\ ~Called(c, "send")
            ELSE Len(sent[c]) = 1 /\ log[c][Len(log[c])] = "send"

\* an attempt was rejected on an undecodable hello with AuthFailed sent
C2_Witness ==
    \E c \in Conns :
        /\ Rejected(c)
        /\ inbound[c] = Some(Ok(Garbage))
        /\ sent[c] = <<"AuthFailed">>

\* C3: an attempt that ends Admitted has sent no ServerHello; no attempt
\* produces both a ClientHandshake and a rejection message.
C3_AdmittedSentNothing ==
    \A c \in Conns :
        /\ Admitted(c) => sent[c] = <<>>
        /\ (result[c] # NotYet /\ result[c].some) => (Admitted(c) /\ sent[c] = <<>>)
        /\ sent[c] # <<>> => (result[c] = None /\ Rejected(c))

\* an attempt was admitted after the registry answered with a live binding
C3_Witness ==
    \E c \in Conns :
        Admitted(c) /\ result[c].some /\ instance[c] # NotYet /\ instance[c].ok

\* C4: a failed directory lookup (backend error, account not found, invalid
\* account id) ends the attempt Rejected with no ServerHello, no
\* ClientHandshake, no registry query and no token verification, whatever
\* sub-domain or reconnect token the hello carries.
C4_LookupFailureRejectsSilently ==
    \A c \in Conns :
        LookupFailed(c) =>
            /\ account[c].err \in {"AuthDbGetItem", "AccountNotFound", "InvalidAccountId"}
            /\ Rejected(c)
            /\ sent[c] = <<>>
            /\ result[c] = None
            /\ ~Called(c, "instance_for_host")
            /\ ~Called(c, "verify")
            /\ ~Called(c, "send")

\* the lookup failed for a hello carrying a sub-domain and a valid token
C4_Witness ==
    \E c \in Conns :
        /\ LookupFailed(c)
        /\ client_hello[c].sub_domain.some
        /\ client_hello[c].reconnect_token.some
        /\ verify(client_hello[c].reconnect_token.val, MasterSigKey).ok

\* the chars of Alphabet that lie in [a-z0-9-]
is_ascii_lower_digit_hyphen(ch) == ch \in {"a", "1", "-"}

\* C5, as the specification words it: a requested sub-domain that, lowercased, has a char
\* outside [a-z0-9-] is rejected with InvalidSubDomain and not admitted.
C5_NonAsciiRejected ==
    \A c \in Conns :
        (Lowercased(c) /\
         \E i \in 1..Len(sub_domain[c].val) :
            ~is_ascii_lower_digit_hyphen(sub_domain[c].val[i]))
        => (~Admitted(c) /\ (Returned(c) => sent[c] = <<"InvalidSubDomain">>))

\* C6: for a name that passed the char check and the blocked check, the
\* registry's answer decides: bound to the requester's own id, the attempt
\* is admitted; bound to another id, it is rejected with SubDomainInUse;
\* unbound (DoesNotServeHost), it is admitted for any client.
C6_RegistryAnswerDecides ==
    \A c \in Conns :
        instance[c] # NotYet =>
            LET answer == instance[c]
                own == client_id_of(client_hello[c].client_type.key)
                admitted == /\ Admitted(c)
                            /\ result[c].some
                            /\ result[c].val.sub_domain = sub_domain[c].val
                            /\ sent[c] = <<>>
            IN  /\ ~has_invalid_char(sub_domain[c].val)
                /\ sub_domain[c].val \notin blocked_sub_domains
                /\ (answer.ok /\ answer.val.client = own) => admitted
                /\ (answer.ok /\ answer.val.client # own) =>
                       (Rejected(c) /\ result[c] = None /\ sent[c] = <<"SubDomainInUse">>)
                /\ (~answer.ok /\ answer.err = "DoesNotServeHost") => admitted

\* a client was admitted to the name the registry binds to its own id
C6_Witness ==
    \E c \in Conns :
        /\ Admitted(c)
        /\ instance[c] # NotYet
        /\ instance[c].ok
        /\ registry[sub_domain[c].val] = Some(client_id[c].val)

\* C7, as the specification words it: a requested name whose lowercased form is in the
\* blocked set is rejected with SubDomainInUse.
C7_BlockedRejectedInUse ==
    \A c \in Conns :
        (Lowercased(c) /\ sub_domain[c].val \in blocked_sub_domains)
        => (Rejected(c) /\ sent[c] = <<"SubDomainInUse">>)

\* C7, as the code has it: a requested name whose lowercased form is made of
\* alphanumeric chars and hyphens only and is in the blocked set is rejected
\* with SubDomainInUse, without a registry query, whoever asks and whatever
\* the registry holds for it.
C7_ValidBlockedRejectedInUse ==
    \A c \in Conns :
        (/\ Lowercased(c)
         /\ sub_domain[c].val \in blocked_sub_domains
         /\ ~has_invalid_char(sub_domain[c].val))
        => /\ Rejected(c)
           /\ result[c] = None
           /\ sent[c] = <<"SubDomainInUse">>
           /\ ~Called(c, "instance_for_host")

\* a client asked for a blocked name that the registry binds to its own id
C7_Witness ==
    \E c \in Conns :
        /\ Rejected(c)
        /\ Lowercased(c)
        /\ sub_domain[c].val \in blocked_sub_domains
        /\ sub_domain[c].val \in DOMAIN registry
        /\ registry[sub_domain[c].val] = Some(client_id[c].val)

\* the attempt of c went through the negotiation and was not rejected by it
NegotiationSucceeded(c) ==
    /\ Returned(c)
    /\ Called(c, "to_lowercase")
    /\ ~Called(c, "send")

\* C8: an Auth hello whose credential resolves and that names a sub-domain
\* is, when the negotiation succeeds, admitted with the id derived from the
\* credential, the lowercased requested name and is_anonymous = false.
C8_NamedSubDomainAdmission ==
    \A c \in Conns :
        /\ (AuthHello(c) /\ LookupOk(c) /\ client_hello[c].sub_domain.some
            /\ NegotiationSucceeded(c))
           => /\ Admitted(c)
              /\ result[c] = Some([id |-> client_id_of(client_hello[c].client_type.key),
                                   sub_domain |-> to_lowercase(client_hello[c].sub_domain.val),
                                   is_anonymous |-> FALSE])
        /\ (Admitted(c) /\ client_hello[c].sub_domain.some)
           => (LookupOk(c) /\ NegotiationSucceeded(c))

\* a client that asked for a name with an uppercase letter was admitted
C8_Witness ==
    \E c \in Conns :
        /\ Admitted(c)
        /\ client_hello[c].sub_domain.some
        /\ client_hello[c].sub_domain.val # to_lowercase(client_hello[c].sub_domain.val)
        /\ result[c].val.sub_domain # client_hello[c].sub_domain.val

\* the attempt of c has decoded an Auth hello with a token and no sub-domain
TokenHello(c) ==
    /\ AuthHello(c)
    /\ ~client_hello[c].sub_domain.some
    /\ client_hello[c].reconnect_token.some

\* what C9 says of a returned attempt with a token hello: the verifier ran,
\* and its answer decided the outcome
TokenDecides(c) ==
    LET token == client_hello[c].reconnect_token.val
        verified == verify(token, MasterSigKey)
    IN  /\ Called(c, "verify")
        /\ IF verified.ok
           THEN /\ Admitted(c)
                /\ result[c] = Some([id |-> token.payload.client_id,
                                     sub_domain |-> token.payload.sub_domain,
                                     is_anonymous |-> TRUE])
                /\ sent[c] = <<>>
           ELSE /\ Rejected(c)
                /\ result[c] = None
                /\ sent[c] = <<"AuthFailed">>

\* C9, as the specification words it: an Auth hello without sub-domain and with a reconnect
\* token has the verifier invoked; verification success admits with the
\* payload's client_id and sub_domain and is_anonymous = true, failure sends
\* AuthFailed and rejects.
C9_TokenVerifiedForAuthHello ==
    \A c \in Conns : (Returned(c) /\ TokenHello(c)) => TokenDecides(c)

\* C9, as the code has it: the same, for an Auth hello whose credential resolves in
\* the directory.
C9_TokenVerifiedAfterLookup ==
    \A c \in Conns : (Returned(c) /\ TokenHello(c) /\ LookupOk(c)) => TokenDecides(c)

\* a client was admitted on a valid reconnect token
C9_Witness ==
    \E c \in Conns :
        /\ Admitted(c)
        /\ TokenHello(c)
        /\ result[c].val.id = client_hello[c].reconnect_token.val.payload.client_id

\* C10: an attempt on the reconnect path whose token verifies is admitted
\* with the token's sub_domain verbatim; it makes no char check, no blocked
\* check and no registry query, whatever the registry binds the name to and
\* whether or not the name is blocked.
C10_ReconnectSkipsNegotiation ==
    \A c \in Conns :
        (/\ Returned(c)
         /\ Called(c, "verify")
         /\ verify(client_hello[c].reconnect_token.val, MasterSigKey).ok)
        => /\ Admitted(c)
           /\ result[c].val.sub_domain = client_hello[c].reconnect_token.val.payload.sub_domain
           /\ ~Called(c, "to_lowercase")
           /\ ~Called(c, "char_check")
           /\ ~Called(c, "blocked_check")
           /\ ~Called(c, "instance_for_host")
           /\ ~Lowercased(c)
           /\ instance[c] = NotYet

\* a token admitted a name that is blocked and that the registry binds to
\* another client
C10_Witness ==
    \E c \in Conns :
        /\ Admitted(c)
        /\ Called(c, "verify")
        /\ result[c].val.sub_domain \in blocked_sub_domains
        /\ result[c].val.sub_domain \in DOMAIN registry
        /\ registry[result[c].val.sub_domain].some
        /\ registry[result[c].val.sub_domain].val # result[c].val.id

\* the attempt of c has decoded an Auth hello with no sub-domain and no token
BareHello(c) ==
    /\ AuthHello(c)
    /\ ~client_hello[c].sub_domain.some
    /\ ~client_hello[c].reconnect_token.some

\* C11: an Auth hello whose credential resolves and that carries neither a
\* sub-domain nor a reconnect token is admitted with a generated, non-empty
\* random sub-domain, a generated client id (not the one derived from the
\* credential) and is_anonymous = true; no registry query is made, no token
\* is verified and no ServerHello is sent.
C11_BareHelloGetsFreshIdentity ==
    \A c \in Conns :
        (BareHello(c) /\ LookupOk(c)) =>
            /\ Admitted(c)
            /\ result[c].some
            /\ result[c].val.sub_domain \in RandomDomains
            /\ Len(result[c].val.sub_domain) > 0
            /\ result[c].val.id \in GeneratedIds
            /\ result[c].val.id # client_id_of(client_hello[c].client_type.key)
            /\ result[c].val.is_anonymous = TRUE
            /\ client_id[c] = None
            /\ sent[c] = <<>>
            /\ ~Called(c, "instance_for_host")
            /\ ~Called(c, "verify")
            /\ ~Called(c, "send")

\* a client with a bare hello was admitted
C11_Witness ==
    \E c \in Conns : BareHello(c) /\ LookupOk(c) /\ Admitted(c) /\ result[c].val.is_anonymous

\* the first message of c was read and is not the JSON of a ClientHello
UndecodableHello(c) ==
    /\ inbound[c] # NotYet
    /\ inbound[c].some
    /\ inbound[c].val.ok
    /\ ~from_slice(inbound[c].val.val).ok

\* C12: a first message that is read but does not decode as a ClientHello is
\* answered with AuthFailed exactly once and the attempt ends Rejected,
\* without directory lookup, registry query or token verification.
C12_DecodeFailureAnswered ==
    \A c \in Conns :
        (UndecodableHello(c) /\ pc[c] # "Decoding") =>
            /\ Rejected(c)
            /\ result[c] = None
            /\ sent[c] = <<"AuthFailed">>
            /\ log[c] = <<"next", "from_slice", "send">>
            /\ client_hello[c] = NotYet
            /\ account[c] = NotYet
            /\ instance[c] = NotYet

\* an undecodable first message was answered
C12_Witness ==
    \E c \in Conns : UndecodableHello(c) /\ Called(c, "from_slice") /\ Len(sent[c]) = 1

\* websocket.next() of c yielded no message: end of stream or transport error
NoFirstMessage(c) ==
    /\ inbound[c] # NotYet
    /\ ~(inbound[c].some /\ inbound[c].val.ok)

\* number of times the attempt of c has made the call named call
CallCount(c, call) == Cardinality({i \in 1..Len(log[c]) : log[c][i] = call})

\* C13: when the first message is absent (stream ended) or unreadable
\* (transport error) the attempt ends Rejected with nothing sent and nothing
\* decoded, looked up, queried or verified; an attempt reads exactly one
\* inbound message.
C13_NoMessageRejectsSilently ==
    \A c \in Conns :
        /\ NoFirstMessage(c) =>
            /\ Rejected(c)
            /\ result[c] = None
            /\ sent[c] = <<>>
            /\ log[c] = <<"next">>
            /\ client_hello[c] = NotYet
            /\ account[c] = NotYet
            /\ instance[c] = NotYet
        /\ CallCount(c, "next") <= 1
        /\ (pc[c] \notin {"NotConnected", "AwaitingHello"}) =>
               (CallCount(c, "next") = 1 /\ log[c][1] = "next" /\ inbound[c] # NotYet)

\* the read of the first message failed with a transport error
C13_Witness ==
    \E c \in Conns : Rejected(c) /\ inbound[c] = Some(Err("transport"))

\* the attempt of c has decoded a hello of client type Anonymous
AnonymousHello(c) == client_hello[c] # NotYet /\ ~client_hello[c].client_type.auth

\* C14: a hello of client type Anonymous is rejected at once: no directory
\* lookup, no registry query, no token verification and no ClientHandshake,
\* whatever its sub_domain and reconnect_token fields hold.
C14_AnonymousRejected ==
    \A c \in Conns :
        AnonymousHello(c) =>
            /\ Rejected(c)
            /\ result[c] = None
            /\ log[c] = <<"next", "from_slice">>
            /\ ~Called(c, "get_item")
            /\ ~Called(c, "instance_for_host")
            /\ ~Called(c, "verify")
            /\ account[c] = NotYet
            /\ instance[c] = NotYet

\* an Anonymous hello with a sub-domain and a valid token was rejected
C14_Witness ==
    \E c \in Conns :
        /\ AnonymousHello(c)
        /\ Rejected(c)
        /\ client_hello[c].sub_domain.some
        /\ client_hello[c].reconnect_token.some
        /\ verify(client_hello[c].reconnect_token.val, MasterSigKey).ok

\* the registry query of c failed with an error other than DoesNotServeHost
RegistryUnavailable(c) ==
    /\ instance[c] # NotYet
    /\ ~instance[c].ok
    /\ instance[c].err # "DoesNotServeHost"

\* C15: when the registry query for a valid, non-blocked name fails with an
\* error other than DoesNotServeHost the negotiation does not reject: nothing
\* is sent and the attempt ends Admitted with the sanitized name.
C15_RegistryErrorIsSoft ==
    \A c \in Conns :
        RegistryUnavailable(c) =>
            /\ ~has_invalid_char(sub_domain[c].val)
            /\ sub_domain[c].val \notin blocked_sub_domains
            /\ Admitted(c)
            /\ sent[c] = <<>>
            /\ ~Called(c, "send")
            /\ result[c] = Some([id |-> client_id[c].val,
                                 sub_domain |-> to_lowercase(client_hello[c].sub_domain.val),
                                 is_anonymous |-> FALSE])

\* the registry failed for a name it binds to another client, and the
\* requester was admitted
C15_Witness ==
    \E c \in Conns :
        /\ RegistryUnavailable(c)
        /\ Admitted(c)
        /\ sub_domain[c].val \in DOMAIN registry
        /\ registry[sub_domain[c].val].some
        /\ registry[sub_domain[c].val].val # client_id[c].val

\* C16: get_account_id_for_auth_key issues one backend request and maps its
\* outcome: a failed call gives AuthDbGetItem; a reply with no item, with an
\* item without account_id, or with an account_id that is not a string gives
\* AccountNotFound; an account_id string that does not parse as a UUID
\* gives InvalidAccountId; only a parsable account_id gives success.
C16_DirectoryOutcomes ==
    \A c \in Conns :
        /\ CallCount(c, "get_item") <= 1
        /\ (account[c] = NotYet) <=> (get_item_reply[c] = NotYet)
        /\ account[c] # NotYet =>
            LET reply == get_item_reply[c]
                found == reply.ok /\ reply.val.item.some
                has_id == found /\ "account_id" \in DOMAIN reply.val.item.val
                has_str == has_id /\ reply.val.item.val["account_id"].s.some
                str == reply.val.item.val["account_id"].s.val
                parses == has_str /\ str \in {"uuid-1", "UUID-1", "uuid-2"}
            IN  /\ CallCount(c, "get_item") = 1
                /\ ~reply.ok => account[c] = Err("AuthDbGetItem")
                /\ (reply.ok /\ ~found) => account[c] = Err("AccountNotFound")
                /\ (found /\ ~has_id) => account[c] = Err("AccountNotFound")
                /\ (has_id /\ ~has_str) => account[c] = Err("AccountNotFound")
                /\ (has_str /\ ~parses) => account[c] = Err("InvalidAccountId")
                /\ account[c].ok <=> parses
                /\ account[c].ok => account[c].val \in {<<"uuid", "1">>, <<"uuid", "2">>}

\* the directory held an item whose account_id is not a string
C16_Witness ==
    \E c \in Conns :
        /\ account[c] = Err("AccountNotFound")
        /\ get_item_reply[c].ok
        /\ get_item_reply[c].val.item.some
        /\ "account_id" \in DOMAIN get_item_reply[c].val.item.val

\* attempts c and d of different client ids have both had the registry's
\* answer for the same name, which the registry does not bind
Racing(c, d) ==
    /\ c # d
    /\ instance[c] # NotYet
    /\ instance[d] # NotYet
    /\ sub_domain[c] = sub_domain[d]
    /\ client_id[c] # client_id[d]
    /\ ~(sub_domain[c].val \in DOMAIN registry /\ registry[sub_domain[c].val].some)

\* C17: the handshake only reads the registry and never binds a name, so
\* two concurrent attempts of different client ids asking for the same
\* valid, non-blocked, unbound name both pass the registry check and both
\* end Admitted with that sub_domain.
C17_RacersBothAdmitted ==
    /\ [][registry' = registry]_vars
    /\ [](\A c, d \in Conns :
            Racing(c, d) =>
                /\ Admitted(c) /\ Admitted(d)
                /\ result[c].val.sub_domain = result[d].val.sub_domain
                /\ result[c].val.sub_domain = sub_domain[c].val
                /\ result[c].val.id # result[d].val.id)

\* two clients of different ids have been admitted to the same name, one of
\* them having asked the registry before the other returned
C17_Witness ==
    \E c, d \in Conns :
        /\ c # d
        /\ Admitted(c) /\ Admitted(d)
        /\ Called(c, "instance_for_host") /\ Called(d, "instance_for_host")
        /\ result[c].val.sub_domain = result[d].val.sub_domain
        /\ result[c].val.id # result[d].val.id
        /\ registry[result[c].val.sub_domain] = None

\* the attempt of c made the call named first before the call named second
Before(c, first, second) ==
    \E i, j \in 1..Len(log[c]) : i < j /\ log[c][i] = first /\ log[c][j] = second

\* C18: the steps of one attempt run in sequence: the hello is decoded
\* before the directory lookup; the lookup has returned success before the
\* negotiation or the token verification starts; the registry is queried
\* only after the lowercased name passed the char check and the blocked
\* check.
C18_StepsInSequence ==
    \A c \in Conns :
        /\ Called(c, "from_slice") => Before(c, "next", "from_slice")
        /\ Called(c, "get_item") =>
               (Before(c, "from_slice", "get_item") /\ AuthHello(c))
        /\ Called(c, "to_lowercase") =>
               (Before(c, "get_item", "to_lowercase") /\ LookupOk(c))
        /\ Called(c, "verify") =>
               (Before(c, "get_item", "verify") /\ LookupOk(c))
        /\ pc[c] \in {"Negotiating", "Reconnecting", "QueryingRegistry"} => LookupOk(c)
        /\ Called(c, "blocked_check") => Before(c, "char_check", "blocked_check")
        /\ Called(c, "char_check") => Before(c, "to_lowercase", "char_check")
        /\ (Called(c, "instance_for_host") \/ pc[c] = "QueryingRegistry") =>
               /\ Called(c, "blocked_check")
               /\ Lowercased(c)
               /\ sub_domain[c].val = to_lowercase(client_hello[c].sub_domain.val)
               /\ ~has_invalid_char(sub_domain[c].val)
               /\ sub_domain[c].val \notin blocked_sub_domains
        /\ Called(c, "instance_for_host") => Before(c, "blocked_check", "instance_for_host")
        /\ \A call \in {"next", "from_slice", "get_item", "to_lowercase", "char_check",
                        "blocked_check", "instance_for_host", "verify", "send"} :
               CallCount(c, call) <= 1

\* an attempt went through every step up to the registry's answer
C18_Witness ==
    \E c \in Conns :
        log[c] = <<"next", "from_slice", "get_item", "to_lowercase", "char_check",
                   "blocked_check", "instance_for_host">>

\* attempts c and d have returned, and the directory and the registry gave
\* them the same answers (up to the value of the account id)
SameAnswers(c, d) ==
    /\ Returned(c) /\ Returned(d)
    /\ (account[c] = NotYet) <=> (account[d] = NotYet)
    /\ account[c] # NotYet =>
           /\ account[c].ok <=> account[d].ok
           /\ ~account[c].ok => account[c] = account[d]
    /\ instance[c] = instance[d]

\* attempts c and d send the same and return the same
SameOutcome(c, d) ==
    /\ pc[c] = pc[d]
    /\ sent[c] = sent[d]
    /\ result[c] = result[d]

\* c and d decoded Auth hellos that name the same sub-domain with the same
\* key; c carries a reconnect token and d does not
TwinsButToken(c, d) ==
    /\ AuthHello(c) /\ AuthHello(d)
    /\ client_hello[c].client_type = client_hello[d].client_type
    /\ client_hello[c].sub_domain.some
    /\ client_hello[c].sub_domain = client_hello[d].sub_domain
    /\ client_hello[c].reconnect_token.some
    /\ ~client_hello[d].reconnect_token.some

\* C19: the reconnect token is verified only for an Auth hello without a
\* sub-domain; an Auth hello with a sub-domain and a token, valid or not, has
\* the outcome of the same hello without the token (on admission: the id
\* derived from the credential and is_anonymous = false).
C19_TokenIgnoredWithSubDomain ==
    \A c \in Conns :
        /\ Called(c, "verify") =>
               /\ AuthHello(c)
               /\ ~client_hello[c].sub_domain.some
               /\ client_hello[c].reconnect_token.some
        /\ \A d \in Conns :
               (TwinsButToken(c, d) /\ SameAnswers(c, d)) =>
                   /\ SameOutcome(c, d)
                   /\ ~Called(c, "verify")
                   /\ log[c] = log[d]
                   /\ Admitted(c) =>
                          /\ result[c].val.id = client_id_of(client_hello[c].client_type.key)
                          /\ result[c].val.is_anonymous = FALSE

\* a hello with a sub-domain and a valid token, and the same hello without
\* the token, were both admitted
C19_Witness ==
    \E c, d \in Conns :
        /\ TwinsButToken(c, d)
        /\ SameAnswers(c, d)
        /\ Admitted(c) /\ Admitted(d)
        /\ verify(client_hello[c].reconnect_token.val, MasterSigKey).ok
        /\ result[c].val.id # client_hello[c].reconnect_token.val.payload.client_id

\* C20: the account id the directory returns is only a proof of validity:
\* two attempts that differ in nothing but that id send the same and end
\* the same, with the same client_id, sub_domain and is_anonymous (for the
\* hello without sub-domain and token: both generated, none made from the
\* account id).
C20_AccountIdUnused ==
    \A c, d \in Conns :
        (/\ c # d
         /\ inbound[c] = inbound[d]
         /\ LookupOk(c) /\ LookupOk(d)
         /\ SameAnswers(c, d))
        => /\ pc[c] = pc[d]
           /\ sent[c] = sent[d]
           /\ log[c] = log[d]
           /\ client_id[c] = client_id[d]
           /\ result[c].some <=> result[d].some
           /\ IF BareHello(c)
              THEN \A e \in {c, d} :
                       /\ result[e].val.id \in GeneratedIds
                       /\ result[e].val.sub_domain \in RandomDomains
                       /\ result[e].val.is_anonymous = TRUE
              ELSE result[c] = result[d]

\* two attempts with the same hello naming a sub-domain got different
\* account ids and were admitted alike
C20_Witness ==
    \E c, d \in Conns :
        /\ inbound[c] = inbound[d]
        /\ LookupOk(c) /\ LookupOk(d)
        /\ account[c].val # account[d].val
        /\ Admitted(c) /\ Admitted(d)
        /\ client_hello[c].sub_domain.some
        /\ result[c] = result[d]

====
